---- MODULE Spec2Model ----
(***************************************************************************)
(* One run of main() of src/main.py: the secrets check, the USD/KRW rate   *)
(* resolution, the Notion database query and the per-page loop (field      *)
(* extraction, price dispatch, conditional PATCH).  Every external call is *)
(* counted or logged so that the properties of spec.md can be stated over  *)
(* what the run did to the outside world.                                  *)
(*                                                                         *)
(* The category names are the Korean select options of the database; the   *)
(* model writes "domestic" for the option main.py line 149 compares with   *)
(* and "overseas" for the one of line 151.  The payload keys               *)
(* "current_price" and "exchange_rate" stand for the two Korean property   *)
(* names of lines 94-95.                                                   *)
(***************************************************************************)
EXTENDS Integers, Sequences, FiniteSets, TLC

VARIABLES
    NOTION_API_KEY,   \* os.environ.get('NOTION_API_KEY'), line 11
    DATABASE_ID,      \* os.environ.get('DATABASE_ID'), line 12
    pc,               \* position of main()
    exchange_rate,    \* local of main(), line 115
    pages,            \* local of main(), line 121
    idx,              \* position of the for loop of line 128 in pages
    current_price,    \* local of main(), lines 141-152
    rate_calls,       \* number of calls of get_usd_to_krw_rate so far
    rate_failed,      \* whether the rate request of this run failed
    query_calls,      \* number of database queries sent so far
    visited,          \* indices of the pages the loop body was entered for
    fetches,          \* log of price requests sent, with the price each resolved to
    patches           \* log of PATCH requests sent

vars == <<NOTION_API_KEY, DATABASE_ID, pc, exchange_rate, pages, idx,
          current_price, rate_calls, rate_failed, query_calls, visited,
          fetches, patches>>

-----------------------------------------------------------------------------
(* Bounds and input domains *)

MaxPages == 2

FallbackRate == 1300

None == "None"

\* Values an environment variable can have: unset, set but empty, set.
SecretValues == {None, "", "secret"}

\* Close values the quote provider can answer for KRW=X.
RateQuotes == {1350, 1400}

\* Prices a quote source can answer for an instrument, a zero or negative
\* quote included.
PriceQuotes == {-1, 0, 500}

\* The calendar day of the run and the day before it.
Today == "2024-05-21"
Yesterday == "2024-05-20"

\* The rich_text list of the code property: empty, one empty text, one code.
RichTexts == {<<>>, <<"">>, <<"005930">>}

\* The select of the category property: none, or an option name.
Selects == {None, "domestic", "overseas", "etc"}

\* The auto-buy properties spec.md section 3 gives a holding.  main.py reads
\* none of them; they are carried by the page as the database returns it.
AutoBuyOff ==
    [autoBuyEnabled |-> FALSE, buyFrequency |-> "none", lastBuyDate |-> None,
     fixedAmount |-> 0, fixedQuantity |-> 0]
AutoBuyDue ==
    [autoBuyEnabled |-> TRUE, buyFrequency |-> "daily", lastBuyDate |-> Yesterday,
     fixedAmount |-> 0, fixedQuantity |-> 2]
AutoBuyBoughtToday ==
    [autoBuyEnabled |-> TRUE, buyFrequency |-> "daily", lastBuyDate |-> Today,
     fixedAmount |-> 0, fixedQuantity |-> 2]

\* A record of the query result without the "id" key: page["id"] raises.
MalformedPage ==
    [id |-> None, rich_text |-> <<>>, select |-> None, autobuy |-> AutoBuyOff]

\* The pages a query result can hold.
Pages ==
    {MalformedPage}
    \cup {[id |-> "page", rich_text |-> r, select |-> s, autobuy |-> AutoBuyOff] :
            r \in RichTexts, s \in Selects}
    \cup {[id |-> "page", rich_text |-> <<"005930">>, select |-> s, autobuy |-> a] :
            s \in {"domestic", "overseas"}, a \in {AutoBuyDue, AutoBuyBoughtToday}}

RECURSIVE SeqsUpTo(_, _)
SeqsUpTo(S, n) ==
    IF n = 0 THEN {<<>>}
    ELSE LET shorter == SeqsUpTo(S, n - 1)
         IN  shorter \cup {Append(q, x) : q \in {t \in shorter : Len(t) = n - 1}, x \in S}

PageLists == SeqsUpTo(Pages, MaxPages)

\* Outcomes of the external requests.
RateOutcomes ==
    {[kind |-> "error", close |-> 0], [kind |-> "empty", close |-> 0]}
    \cup {[kind |-> "ok", close |-> r] : r \in RateQuotes}
QueryOutcomes ==
    {[kind |-> "error", results |-> <<>>]}
    \cup {[kind |-> "ok", results |-> l] : l \in PageLists}
DomesticOutcomes ==
    {[kind |-> "error", value |-> 0], [kind |-> "no_element", value |-> 0]}
    \cup {[kind |-> "ok", value |-> v] : v \in PriceQuotes}
OverseasOutcomes ==
    {[kind |-> "error", value |-> 0]}
    \cup {[kind |-> "ok", value |-> v] : v \in PriceQuotes}
PatchOutcomes == {"ok", "error"}

-----------------------------------------------------------------------------
(* Pure functions of main.py *)

\* Python truthiness of an optional string: None and "" are false.
Truthy(s) == s # None /\ s # ""

\* An optional float: <<>> is Python's None, <<x>> the float x.
NoFloat == <<>>
Float(x) == <<x>>

get_usd_to_krw_rate_gives_up(o) ==
    IF o.kind = "ok" THEN Float(o.close) ELSE NoFloat
\* get_usd_to_krw_rate: the close of the quote, or the default on any exception.
get_usd_to_krw_rate(o) ==
    IF o.kind = "ok" THEN Float(o.close) ELSE Float(FallbackRate)

\* get_domestic_price: the parsed price, or 0 when the element is missing or on
\* any exception.
get_domestic_price(o) ==
    IF o.kind = "ok" THEN o.value ELSE 0

\* get_overseas_price: the close of the quote, or 0.0 on any exception.
get_overseas_price(o) ==
    IF o.kind = "ok" THEN o.value ELSE 0

\* get_pages_from_db: the "results" of the answer, or [] on any exception.
get_pages_from_db(o) ==
    IF o.kind = "ok" THEN o.results ELSE <<>>

\* The payload update_notion_page builds.
Payload(price, rate) ==
    [k \in {"current_price", "exchange_rate"} |->
        IF k = "current_price" THEN price ELSE rate]

update_notion_page_raises(o) == IF o = "ok" THEN "returned" ELSE "raised"
\* How update_notion_page ends for an outcome of the PATCH request: the
\* try/except of lines 98-102 catches every exception.
update_notion_page(o) == "returned"

\* item_code of lines 135-136.
ItemCode(page) ==
    IF page.rich_text # <<>> THEN page.rich_text[1] ELSE None

\* category of lines 138-139.
Category(page) == page.select

SecretsMissingBoth == ~Truthy(NOTION_API_KEY) /\ ~Truthy(DATABASE_ID)
\* The condition of line 110.
SecretsMissing == ~Truthy(NOTION_API_KEY) \/ ~Truthy(DATABASE_ID)

SkipsRecordBoth(item_code, category) == ~Truthy(item_code) /\ ~Truthy(category)
\* The condition of line 143.
SkipsRecord(item_code, category) == ~Truthy(item_code) \/ ~Truthy(category)

ShouldUpdateNonNegative(price) == price >= 0
\* The condition of line 154.
ShouldUpdate(price) == price > 0

NextIndexStuck(i) == i
\* The for loop of line 128 moves to the next page.
NextIndex(i) == i + 1

-----------------------------------------------------------------------------
(* The run *)

Init ==
    /\ NOTION_API_KEY \in SecretValues
    /\ DATABASE_ID \in SecretValues
    /\ pc = "start"
    /\ exchange_rate = NoFloat
    /\ pages = <<>>
    /\ idx = 0
    /\ current_price = 0
    /\ rate_calls = 0
    /\ rate_failed = FALSE
    /\ query_calls = 0
    /\ visited = <<>>
    /\ fetches = <<>>
    /\ patches = <<>>

\* main, lines 110-112.
CheckSecrets ==
    /\ pc = "start"
    /\ pc' = IF SecretsMissing THEN "exit_config" ELSE "rate"
    /\ UNCHANGED <<NOTION_API_KEY, DATABASE_ID, exchange_rate, pages, idx,
                   current_price, rate_calls, rate_failed, query_calls, visited,
                   fetches, patches>>

\* main, lines 114-118.
ResolveRate ==
    /\ pc = "rate"
    /\ \E o \in RateOutcomes :
        /\ exchange_rate' = get_usd_to_krw_rate(o)
        /\ rate_failed' = (o.kind # "ok")
    /\ rate_calls' = rate_calls + 1
    /\ pc' = IF exchange_rate' = NoFloat THEN "exit_rate" ELSE "query"
    /\ UNCHANGED <<NOTION_API_KEY, DATABASE_ID, pages, idx, current_price,
                   query_calls, visited, fetches, patches>>

\* main, lines 120-126.
QueryPages ==
    /\ pc = "query"
    /\ \E o \in QueryOutcomes : pages' = get_pages_from_db(o)
    /\ query_calls' = query_calls + 1
    /\ IF pages' = <<>>
         THEN pc' = "exit_empty" /\ idx' = idx
         ELSE pc' = "loop" /\ idx' = 1
    /\ UNCHANGED <<NOTION_API_KEY, DATABASE_ID, exchange_rate, current_price,
                   rate_calls, rate_failed, visited, fetches, patches>>

\* main, lines 128-147: the loop body up to the price dispatch.  page["id"] of
\* a record without the key raises KeyError, which nothing in main catches.
ExtractFields ==
    /\ pc = "loop"
    /\ idx <= Len(pages)
    /\ visited' = Append(visited, idx)
    /\ LET page == pages[idx] IN
        IF page.id = None
          THEN pc' = "crashed" /\ UNCHANGED <<idx, current_price>>
          ELSE /\ current_price' = 0
               /\ IF SkipsRecord(ItemCode(page), Category(page))
                    THEN pc' = "loop" /\ idx' = NextIndex(idx)
                    ELSE pc' = "price" /\ idx' = idx
    /\ UNCHANGED <<NOTION_API_KEY, DATABASE_ID, exchange_rate, pages, rate_calls,
                   rate_failed, query_calls, fetches, patches>>

\* main, lines 149-152.
ResolvePrice ==
    /\ pc = "price"
    /\ LET category == Category(pages[idx]) IN
        IF category = "domestic"
          THEN /\ \E o \in DomesticOutcomes : current_price' = get_domestic_price(o)
               /\ fetches' = Append(fetches,
                      [page |-> idx, source |-> "domestic", price |-> current_price'])
          ELSE IF category = "overseas"
          THEN /\ \E o \in OverseasOutcomes : current_price' = get_overseas_price(o)
               /\ fetches' = Append(fetches,
                      [page |-> idx, source |-> "overseas", price |-> current_price'])
          ELSE UNCHANGED <<current_price, fetches>>
    /\ pc' = "update"
    /\ UNCHANGED <<NOTION_API_KEY, DATABASE_ID, exchange_rate, pages, idx,
                   rate_calls, rate_failed, query_calls, visited, patches>>

\* main, lines 154-160, resolving the rate again before each update.
UpdateOrSkipResolvingRateAgain ==
    /\ pc = "update"
    /\ IF ShouldUpdate(current_price)
         THEN \E o \in PatchOutcomes, r \in RateOutcomes :
                /\ exchange_rate' = get_usd_to_krw_rate(r)
                /\ patches' = Append(patches,
                       [page |-> idx,
                        payload |-> Payload(current_price, exchange_rate'[1]),
                        ok |-> (o = "ok")])
                /\ pc' = "loop"
                /\ idx' = NextIndex(idx)
         ELSE /\ patches' = patches
              /\ exchange_rate' = exchange_rate
              /\ pc' = "loop"
              /\ idx' = NextIndex(idx)
    /\ UNCHANGED <<NOTION_API_KEY, DATABASE_ID, pages, current_price, rate_calls,
                   rate_failed, query_calls, visited, fetches>>

\* main, lines 154-160, with update_notion_page, lines 87-102.
UpdateOrSkip ==
    /\ pc = "update"
    /\ IF ShouldUpdate(current_price)
         THEN \E o \in PatchOutcomes :
                /\ patches' = Append(patches,
                       [page |-> idx,
                        payload |-> Payload(current_price, exchange_rate[1]),
                        ok |-> (o = "ok")])
                /\ IF update_notion_page(o) = "raised"
                     THEN pc' = "crashed" /\ idx' = idx
                     ELSE pc' = "loop" /\ idx' = NextIndex(idx)
         ELSE /\ patches' = patches
              /\ pc' = "loop"
              /\ idx' = NextIndex(idx)
    /\ UNCHANGED <<NOTION_API_KEY, DATABASE_ID, exchange_rate, pages,
                   current_price, rate_calls, rate_failed, query_calls, visited,
                   fetches>>

\* main, line 162: the loop is exhausted.
Finish ==
    /\ pc = "loop"
    /\ idx > Len(pages)
    /\ pc' = "done"
    /\ UNCHANGED <<NOTION_API_KEY, DATABASE_ID, exchange_rate, pages, idx,
                   current_price, rate_calls, rate_failed, query_calls, visited,
                   fetches, patches>>

Next ==
    \/ CheckSecrets
    \/ ResolveRate
    \/ QueryPages
    \/ ExtractFields
    \/ ResolvePrice
    \/ UpdateOrSkip
    \/ Finish

Spec == Init /\ [][Next]_vars

-----------------------------------------------------------------------------
(* What the run did, per page *)

PageIndices == 1..Len(pages)

\* The positions in the logs of the requests sent for page i.
FetchesOf(i) == {k \in 1..Len(fetches) : fetches[k].page = i}
PatchesOf(i) == {k \in 1..Len(patches) : patches[k].page = i}

Visited(i) == \E k \in 1..Len(visited) : visited[k] = i

Stopped == pc \in {"exit_config", "exit_rate", "exit_empty", "done", "crashed"}

AbsentOrEmpty(s) == s \in {None, ""}

\* A holding as spec.md section 3 has it: a code and one of the two categories.
HoldingHasCode(page) == page.rich_text # <<>> /\ ~AbsentOrEmpty(page.rich_text[1])
HoldingHasKnownCategory(page) == page.select \in {"domestic", "overseas"}

-----------------------------------------------------------------------------
(* C1 *)

\* C1: a holding whose code is absent, or whose category is absent or is not
\* one of domestic and overseas, gets no price request and no PATCH request.
C1_InvalidHoldingUntouched ==
    \A i \in PageIndices :
        (~HoldingHasCode(pages[i]) \/ ~HoldingHasKnownCategory(pages[i]))
            => FetchesOf(i) = {} /\ PatchesOf(i) = {}

\* A finished run that went past a holding without a code and a holding with a
\* code and an unrecognised category.
C1_Witness ==
    /\ pc = "done"
    /\ \E i, j \in PageIndices :
        /\ pages[i].id # None /\ ~HoldingHasCode(pages[i])
        /\ pages[i].select = "domestic"
        /\ HoldingHasCode(pages[j]) /\ pages[j].select = "etc"
        /\ Visited(i) /\ Visited(j)

-----------------------------------------------------------------------------
(* C2 *)

\* C2: a PATCH is sent for a holding only if its price resolved to a value
\* > 0; a holding whose price resolved to 0 (or was never resolved) gets no
\* PATCH at all, and every PATCH sent carries exactly the price, > 0 and the
\* one that was resolved, and the exchange rate of the run.
C2_WriteOnlyWithPositivePrice ==
    /\ \A k \in 1..Len(patches) :
        /\ DOMAIN patches[k].payload = {"current_price", "exchange_rate"}
        /\ patches[k].payload["current_price"] > 0
        /\ patches[k].payload["exchange_rate"] = exchange_rate[1]
        /\ \E f \in FetchesOf(patches[k].page) :
              fetches[f].price = patches[k].payload["current_price"]
    /\ \A f \in 1..Len(fetches) :
        fetches[f].price <= 0 => PatchesOf(fetches[f].page) = {}
    /\ \A i \in PageIndices : FetchesOf(i) = {} => PatchesOf(i) = {}

\* A finished run in which one holding's price resolved to 0 and was not
\* written, and another's resolved to a positive price and was written.
C2_Witness ==
    /\ pc = "done"
    /\ \E f, g \in 1..Len(fetches) :
        /\ fetches[f].price = 0 /\ PatchesOf(fetches[f].page) = {}
        /\ fetches[g].price > 0 /\ PatchesOf(fetches[g].page) # {}

-----------------------------------------------------------------------------
(* C3 *)

\* C3: with NOTION_API_KEY or DATABASE_ID absent the run exits at once: no
\* rate request, no database query, no price request and no PATCH is made.
C3_MissingSecretNoWork ==
    (AbsentOrEmpty(NOTION_API_KEY) \/ AbsentOrEmpty(DATABASE_ID)) =>
        /\ pc \in {"start", "exit_config"}
        /\ rate_calls = 0
        /\ query_calls = 0
        /\ fetches = <<>>
        /\ patches = <<>>

\* The run has exited with the API key set and the database identifier unset.
C3_Witness ==
    /\ pc = "exit_config"
    /\ NOTION_API_KEY = "secret"
    /\ DATABASE_ID = None

-----------------------------------------------------------------------------
(* C4 *)

\* C4: when the rate request fails the resolver returns the fallback 1300,
\* the run is not aborted for it, and every PATCH of the run carries 1300.
C4_RateFallback ==
    rate_failed =>
        /\ exchange_rate = Float(1300)
        /\ pc # "exit_rate"
        /\ pc \notin {"start", "rate"}
        /\ \A k \in 1..Len(patches) : patches[k].payload["exchange_rate"] = 1300

\* A finished run whose rate request failed and which wrote a holding.
C4_Witness ==
    /\ rate_failed
    /\ pc = "done"
    /\ \E k \in 1..Len(patches) : patches[k].ok

-----------------------------------------------------------------------------
(* C5 *)

\* What main does with a holding it has gone past: the loop body was entered
\* for it once, its price was requested if it has a code and a known category,
\* and a PATCH was attempted if the price resolved to a value > 0.
Processed(j) ==
    /\ Visited(j)
    /\ (HoldingHasCode(pages[j]) /\ HoldingHasKnownCategory(pages[j]))
          => /\ Cardinality(FetchesOf(j)) = 1
             /\ \A f \in FetchesOf(j) :
                   fetches[f].price > 0 => Cardinality(PatchesOf(j)) = 1

\* C5: a failed PATCH does not abort the run: after it the loop has moved on to
\* the next holding, every holding the loop has since gone past was processed,
\* and the run never stops on the holding whose PATCH failed (it stops early
\* only on a record without an id, never at a PATCH).
C5_FailedWriteDoesNotAbort ==
    /\ \A k \in 1..Len(patches) :
        ~patches[k].ok =>
            /\ idx > patches[k].page
            /\ \A j \in (patches[k].page + 1)..(idx - 1) : Processed(j)
            /\ pc = "done" => \A j \in PageIndices : Processed(j)
    /\ pc = "crashed" => pages[idx].id = None /\ PatchesOf(idx) = {}

\* A finished run in which the PATCH of the first holding failed and the PATCH
\* of the second was still attempted.
C5_Witness ==
    /\ pc = "done"
    /\ \E k, l \in 1..Len(patches) :
        /\ ~patches[k].ok
        /\ patches[l].page > patches[k].page

-----------------------------------------------------------------------------
(* C6 *)

\* C6: a record whose fields cannot be extracted is only skipped: the run does
\* not stop on it, and goes on to the holdings after it.
C6_BadRecordOnlySkipped ==
    \A i \in PageIndices :
        (pages[i].id = None /\ Visited(i)) =>
            (Stopped => pc = "done" /\ \A j \in PageIndices : Visited(j))

-----------------------------------------------------------------------------
(* C8 *)

\* The quantity a purchase adds, spec.md section 4.3 step 3, for the holdings
\* of the model (no fixed amount is set on any of them).
AddQuantity(page) ==
    IF page.autobuy.fixedAmount > 0 THEN 0 ELSE page.autobuy.fixedQuantity

\* The Auto-Buy Decision of spec.md section 4.3: both gates pass, the price is
\* > 0 and the quantity to add is > 0.
AutoBuyFires(page, price) ==
    /\ page.autobuy.autoBuyEnabled
    /\ page.autobuy.lastBuyDate # Today
    /\ page.autobuy.buyFrequency = "daily"
    /\ price > 0
    /\ AddQuantity(page) > 0

\* C8: a PATCH carries the quantity and the last-buy-date exactly when the
\* Auto-Buy Decision fired for its holding; otherwise it carries only the
\* price and the exchange rate.
C8_PatchCarriesPurchaseWhenFired ==
    \A k \in 1..Len(patches) :
        LET p == patches[k] IN
        IF AutoBuyFires(pages[p.page], p.payload["current_price"])
          THEN {"quantity", "last_buy_date"} \subseteq DOMAIN p.payload
          ELSE DOMAIN p.payload = {"current_price", "exchange_rate"}

-----------------------------------------------------------------------------
(* C9 *)

\* C9: the exchange rate is resolved once per run, before the database is
\* queried, and every PATCH of the run carries that one value, whichever price
\* requests and PATCHes fail.
C9_RateResolvedOnce ==
    /\ rate_calls <= 1
    /\ query_calls <= 1
    /\ query_calls > 0 => rate_calls = 1
    /\ (rate_calls = 0) = (exchange_rate = NoFloat)
    /\ \A k, l \in 1..Len(patches) :
        /\ patches[k].payload["exchange_rate"] = patches[l].payload["exchange_rate"]
        /\ patches[k].payload["exchange_rate"] = exchange_rate[1]

\* A finished run with a quoted rate and two PATCHes of which one failed.
C9_Witness ==
    /\ pc = "done"
    /\ ~rate_failed
    /\ Len(patches) >= 2
    /\ \E k \in 1..Len(patches) : ~patches[k].ok

-----------------------------------------------------------------------------
(* C10 *)

\* C10: no retries: the holdings are visited once each in list order, with at
\* most one price request and at most one PATCH per holding, in that order; a
\* run that completes has visited every holding, and a run is never stuck
\* before it has stopped.
C10_NoRetries ==
    /\ Len(visited) <= Len(pages)
    /\ \A k \in 1..Len(visited) : visited[k] = k
    /\ \A i \in PageIndices :
        /\ Cardinality(FetchesOf(i)) <= 1
        /\ Cardinality(PatchesOf(i)) <= 1
    /\ \A k, l \in 1..Len(fetches) : k < l => fetches[k].page < fetches[l].page
    /\ \A k, l \in 1..Len(patches) : k < l => patches[k].page < patches[l].page
    /\ pc = "done" => Len(visited) = Len(pages) /\ idx = Len(pages) + 1
    /\ Stopped \/ ENABLED Next

\* A finished run in which a price request failed for one holding and the
\* PATCH failed for a later one, neither repeated.
C10_Witness ==
    /\ pc = "done"
    /\ \E f \in 1..Len(fetches), k \in 1..Len(patches) :
        /\ fetches[f].price = 0
        /\ ~patches[k].ok
        /\ fetches[f].page < patches[k].page

====
